---------------------------- MODULE Spec2Model ----------------------------
(***************************************************************************)
(* UTF-8b codec of schemesh (src/containers/containers.c).                 *)
(*                                                                         *)
(* Buffers are sequences; the C code indexes them from 0, the sequences    *)
(* are indexed from 1, so position p of the code is element p + 1.         *)
(* Bit operations are written arithmetically:                              *)
(*     x >> k  is  x \div 2^k,      x & (2^k - 1)  is  x % 2^k,            *)
(*     a | b   is  a + b  when a and b have no bit in common.              *)
(***************************************************************************)
EXTENDS Integers, Sequences, FiniteSets, TLC

(***************************************************************************)
(* Bounds of the model.                                                    *)
(***************************************************************************)
MaxBytes == 4       \* longest byte sequence decoded
MaxChars == 2       \* longest scalar sequence encoded
MaxOut   == 4       \* longest output bytevector of an encodeAppend call
MaxArg   == 2       \* longest buffer of the range-validation calls

\* Representative bytes: ASCII; two continuation bytes, which after the lead
\* bytes below give every verdict of the value tests (0xE0: overlong with
\* 0x82, valid with 0xAC; 0xED: valid, surrogate; 0xF0: overlong, valid;
\* 0xF4: valid, above 0x10FFFF); the invalid lead bytes 0xC0 and 0xFF; and
\* lead bytes of the 2-, 3- and 4-byte forms.
ByteSet == {\h41, \h82, \hAC, \hC0, \hC2, \hE0, \hED, \hF0, \hF4, \hFF}

\* The bytes of the streaming runs: ASCII, two continuation bytes, an invalid
\* lead byte and one lead byte of each multi-byte form (0xC2 0x82, 0xE2 0x82
\* 0xAC and 0xF0 0xAC 0x82 0x82 are well formed).
StreamBytes == {\h41, \h82, \hAC, \hC2, \hE2, \hF0, \hFF}

\* Representative scalars: the boundaries of every row of the encoding rule.
ScalarSet == {\h41, \h80, \h7FF, \h800, \hD7FF, \hD800, \hDC80, \hDCFF,
              \hDD00, \hE000, \hFFFF, \h10000, \h10FFFF, \h110000}

\* the sequences over S of length at most n
SeqsUpTo(S, n) == UNION {[1..k -> S] : k \in 0..n}

(***************************************************************************)
(* Host values (ptr): the tagged immediates the functions return.          *)
(***************************************************************************)
Sfalse     == [tag |-> "boolean", val |-> 0]
Strue      == [tag |-> "boolean", val |-> 1]
Sfixnum(n) == [tag |-> "fixnum",  val |-> n]
\* a character object keeps 24 bits of the value it is made from
Schar(c)   == [tag |-> "char",    val |-> c % 16777216]

Sstring_ref(string, i) == string[i + 1]

\* Sstring_set(str, i, c) stores Schar(c) in slot i; reading the slot back
\* yields the character value.  A store at or beyond the string's length is
\* outside the object: it is left out of the sequence here and reported by
\* the callers' oob field.
Sstring_set(str, i, c) ==
    IF i >= 0 /\ i < Len(str) THEN [str EXCEPT ![i + 1] = Schar(c).val] ELSE str

\* out[opos + k] = bytes[k + 1], every store truncated to an octet
RECURSIVE store_octets(_, _, _)
store_octets(out, opos, bytes) ==
    IF bytes = <<>> THEN out
    ELSE store_octets([out EXCEPT ![opos + 1] = Head(bytes) % 256], opos + 1, Tail(bytes))

(***************************************************************************)
(* ScalarEncoder                                                           *)
(***************************************************************************)
\* faulty variant: the 1-byte row ends at 0x80 inclusive
c_codepoint_to_utf8b_length_le80(codepoint) ==
    IF codepoint < \h800 THEN (IF codepoint <= \h80 THEN 1 ELSE 2)
    ELSE IF codepoint >= \hDC80 /\ codepoint < \hDD00 THEN 1
    ELSE IF codepoint < \h10000 THEN 3 ELSE 4

c_codepoint_to_utf8b_length(codepoint) ==
    IF codepoint < \h800 THEN (IF codepoint < \h80 THEN 1 ELSE 2)
    ELSE IF codepoint >= \hDC80 /\ codepoint < \hDD00 THEN 1
    ELSE IF codepoint < \h10000 THEN 3 ELSE 4

\* The bytes written to out[0..]; <<>> is the return value 0.
c_codepoint_to_utf8b(codepoint, out_len) ==
    IF codepoint < \h80 \/ (codepoint >= \hDC80 /\ codepoint < \hDD00) THEN
        IF out_len > 0 THEN <<codepoint % 256>> ELSE <<>>
    ELSE IF codepoint < \h800 THEN
        IF out_len >= 2
        THEN <<\hC0 + ((codepoint \div 64) % 32), \h80 + (codepoint % 64)>>
        ELSE <<>>
    ELSE IF codepoint < \h10000 THEN
        IF codepoint < \hD800 \/ codepoint >= \hE000 THEN
            IF out_len >= 3
            THEN <<\hE0 + ((codepoint \div 4096) % 16),
                   \h80 + ((codepoint \div 64) % 64),
                   \h80 + (codepoint % 64)>>
            ELSE <<>>
        ELSE <<>>
    ELSE IF codepoint < \h110000 /\ out_len >= 4 THEN
        <<\hF0 + ((codepoint \div 262144) % 8),
          \h80 + ((codepoint \div 4096) % 64),
          \h80 + ((codepoint \div 64) % 64),
          \h80 + (codepoint % 64)>>
    ELSE <<>>

(***************************************************************************)
(* SequenceEncoder.  The arguments are of the types the functions test for *)
(* (Sstringp, Sbytevectorp, Spairp hold).                                  *)
(***************************************************************************)
RECURSIVE string_to_utf8b_length_loop(_, _, _)
string_to_utf8b_length_loop(string, i, iend) ==
    IF i < iend
    THEN c_codepoint_to_utf8b_length(Sstring_ref(string, i))
         + string_to_utf8b_length_loop(string, i + 1, iend)
    ELSE 0

c_string_to_utf8b_length(string, start, end) ==
    IF start >= 0 /\ end > start THEN
        LET len  == Len(string)
            i    == IF start < len THEN start ELSE len
            iend == IF end < len THEN end ELSE len
        IN  string_to_utf8b_length_loop(string, i, iend)
    ELSE 0

\* The loop of c_string_to_utf8b_append; opos is the write cursor at return.
RECURSIVE string_to_utf8b_append_loop(_, _, _, _, _)
string_to_utf8b_append_loop(string, ipos, iend, out, opos) ==
    IF ~(ipos < iend) THEN [ret |-> Sfixnum(opos), bvec |-> out, opos |-> opos]
    ELSE IF opos >= Len(out) THEN [ret |-> Sfalse, bvec |-> out, opos |-> opos]
    ELSE LET codepoint == Sstring_ref(string, ipos)
             written   == c_codepoint_to_utf8b(codepoint, Len(out) - opos)
         IN  IF written # <<>>
             THEN string_to_utf8b_append_loop(string, ipos + 1, iend,
                      store_octets(out, opos, written), opos + Len(written))
             ELSE [ret |-> Schar(codepoint), bvec |-> out, opos |-> opos]

c_string_to_utf8b_append(string, start, end, bvec, ostart) ==
    IF start >= 0 /\ end >= start /\ ostart >= 0 THEN
        LET ilen == Len(string)
            ipos == IF start < ilen THEN start ELSE ilen
            iend == IF end < ilen THEN (IF end >= start THEN end ELSE start) ELSE ilen
        IN  string_to_utf8b_append_loop(string, ipos, iend, bvec, ostart)
    ELSE [ret |-> Sfalse, bvec |-> bvec, opos |-> ostart]

(***************************************************************************)
(* ScalarDecoder                                                           *)
(***************************************************************************)
\* (in1 & 0xC0) == 0x80
utf8_continuation(b) == b \div 64 = 2

\* faulty variant: no upper limit on a 4-byte value
utf8_length_val4_ok_unbounded(val) == val >= \h10000

\* val >= 0x10000 && val < 0x110000, in c_utf8b_to_codepoint_length
utf8_length_val4_ok(val) == val >= \h10000 /\ val < \h110000

c_utf8b_to_codepoint_length(in) ==
    LET in_len == Len(in) IN
    IF in_len = 0 THEN 0
    ELSE IF in[1] < \h80 THEN 1
    ELSE IF in[1] < \hC2 \/ in[1] > \hF4 \/ in_len = 1 THEN 1
    ELSE IF ~utf8_continuation(in[2]) THEN 1
    ELSE IF in[1] < \hE0 THEN 2
    ELSE IF in_len = 2 THEN 1
    ELSE IF ~utf8_continuation(in[3]) THEN 1
    ELSE IF in[1] < \hF0 THEN
        LET val == (in[1] % 16) * 4096 + (in[2] % 64) * 64 + (in[3] % 64)
        IN  IF val >= \h800 /\ (val < \hD800 \/ val >= \hE000) THEN 3 ELSE 1
    ELSE IF in_len = 3 THEN 1
    ELSE IF in[1] <= \hF4 /\ utf8_continuation(in[4]) THEN
        LET val == (in[1] % 8) * 262144 + (in[2] % 64) * 4096
                   + (in[3] % 64) * 64 + (in[4] % 64)
        IN  IF utf8_length_val4_ok(val) THEN 4 ELSE 1
    ELSE 1

c_utf8_ok(codepoint, length) == [codepoint |-> codepoint, length |-> length]

\* ret.codepoint = -1: the uint32_t 0xFFFFFFFF, kept here as -1, which is the
\* same number modulo 2^32 and modulo the 2^24 of Schar.
c_utf8_incomplete(ret, in_len, eof) ==
    IF eof = Sfalse THEN [codepoint |-> -1, length |-> in_len] ELSE ret

\* faulty variant: overlong 3-byte forms are accepted
utf8_val3_ok_overlong(val) == val < \hD800 \/ val >= \hE000

\* val >= 0x800 && (val < 0xD800 || val >= 0xE000), in c_utf8b_to_codepoint
utf8_val3_ok(val) == val >= \h800 /\ (val < \hD800 \/ val >= \hE000)

\* faulty variant: the lead byte of the 2-byte form masked with 0x0F
utf8_val2_mask0F(in0, in1) == (in0 % 16) * 64 + (in1 % 64)

\* (in0 & 0x1F) << 6 | (in1 & 0x3F)
utf8_val2(in0, in1) == (in0 % 32) * 64 + (in1 % 64)

c_utf8b_to_codepoint(in, eof) ==
    LET in_len == Len(in)
        ret    == c_utf8_ok(\hDC00 + in[1], 1)
    IN
    IF in_len = 0 THEN c_utf8_ok(0, 0)
    ELSE IF in[1] < \h80 THEN c_utf8_ok(in[1], 1)
    ELSE IF in[1] < \hC2 \/ in[1] > \hF4 \/ in_len = 1 THEN ret
    ELSE IF ~utf8_continuation(in[2]) THEN ret
    ELSE IF in[1] < \hE0 THEN c_utf8_ok(utf8_val2(in[1], in[2]), 2)
    ELSE IF in_len = 2 THEN c_utf8_incomplete(ret, in_len, eof)
    ELSE IF ~utf8_continuation(in[3]) THEN ret
    ELSE IF in[1] < \hF0 THEN
        LET val == (in[1] % 16) * 4096 + (in[2] % 64) * 64 + (in[3] % 64)
        IN  IF utf8_val3_ok(val) THEN c_utf8_ok(val, 3) ELSE ret
    ELSE IF in_len = 3 THEN c_utf8_incomplete(ret, in_len, eof)
    ELSE IF in[1] <= \hF4 /\ utf8_continuation(in[4]) THEN
        LET val == (in[1] % 8) * 262144 + (in[2] % 64) * 4096
                   + (in[3] % 64) * 64 + (in[4] % 64)
        IN  IF val >= \h10000 /\ val < \h110000 THEN c_utf8_ok(val, 4) ELSE ret
    ELSE ret

(***************************************************************************)
(* SequenceDecoder                                                         *)
(***************************************************************************)
RECURSIVE c_bytes_utf8b_to_string_length(_)
c_bytes_utf8b_to_string_length(bytes) ==
    IF Len(bytes) > 0 THEN
        LET consumed == c_utf8b_to_codepoint_length(bytes)
        IN  IF consumed = 0 \/ consumed > Len(bytes) THEN 0
            ELSE 1 + c_bytes_utf8b_to_string_length(SubSeq(bytes, consumed + 1, Len(bytes)))
    ELSE 0

\* faulty variant: the capacity test is off by one
utf8b_append_break_off_by_one(pair, in_len, str_pos, str_end) ==
    pair.length = 0 \/ pair.length > in_len \/ str_pos > str_end

\* pair.length == 0 || pair.length > in_len || str_pos >= str_end
utf8b_append_break(pair, in_len, str_pos, str_end) ==
    pair.length = 0 \/ pair.length > in_len \/ str_pos >= str_end

\* The while loop of c_bytes_utf8b_to_string_append.  in is the unread input,
\* oob records a store outside the string object.
RECURSIVE bytes_utf8b_to_string_append_loop(_, _, _, _, _, _)
bytes_utf8b_to_string_append_loop(in, str, str_pos, str_end, eof, oob) ==
    IF Len(in) > 0 THEN
        LET pair == c_utf8b_to_codepoint(in, eof)
        IN  IF utf8b_append_break(pair, Len(in), str_pos, str_end)
            THEN [in |-> in, str |-> str, str_pos |-> str_pos, oob |-> oob]
            ELSE bytes_utf8b_to_string_append_loop(
                     SubSeq(in, pair.length + 1, Len(in)),
                     Sstring_set(str, str_pos, pair.codepoint),
                     str_pos + 1, str_end, eof,
                     oob \/ str_pos < 0 \/ str_pos >= Len(str))
    ELSE [in |-> in, str |-> str, str_pos |-> str_pos, oob |-> oob]

c_sizepair(byte_n, char_n) == [byte_n |-> byte_n, char_n |-> char_n]

\* faulty variant: byte_n is the whole input length, whatever was left unread
c_bytes_utf8b_to_string_append_all_bytes(in, str, str_start, str_end, eof) ==
    IF Len(in) = 0 \/ str_start >= str_end
    THEN [ret |-> c_sizepair(0, 0), str |-> str, oob |-> FALSE]
    ELSE LET r == bytes_utf8b_to_string_append_loop(in, str, str_start, str_end, eof, FALSE)
         IN  [ret |-> c_sizepair(Len(in), r.str_pos - str_start),
              str |-> r.str, oob |-> r.oob]

c_bytes_utf8b_to_string_append(in, str, str_start, str_end, eof) ==
    IF Len(in) = 0 \/ str_start >= str_end
    THEN [ret |-> c_sizepair(0, 0), str |-> str, oob |-> FALSE]
    ELSE LET r == bytes_utf8b_to_string_append_loop(in, str, str_start, str_end, eof, FALSE)
         IN  [ret |-> c_sizepair(Len(in) - Len(r.in), r.str_pos - str_start),
              str |-> r.str, oob |-> r.oob]

\* faulty variant: str_start >= 0 is not checked
c_bytevector_utf8b_to_string_append_no_start_check(bvec, bvec_start, bvec_end, str, str_start, str_end, eof) ==
    IF bvec_start >= 0 /\ bvec_end >= bvec_start /\ str_end >= str_start
       /\ bvec_end <= Len(bvec)
    THEN c_bytes_utf8b_to_string_append(SubSeq(bvec, bvec_start + 1, bvec_end),
                                        str, str_start, str_end, eof)
    ELSE [ret |-> c_sizepair(0, 0), str |-> str, oob |-> FALSE]

\* ret is the (car, cdr) left in cons_eof, whose car held eof at the call.
c_bytevector_utf8b_to_string_append(bvec, bvec_start, bvec_end, str, str_start, str_end, eof) ==
    IF bvec_start >= 0 /\ bvec_end >= bvec_start /\ str_start >= 0 /\ str_end >= str_start
       /\ bvec_end <= Len(bvec)
    THEN c_bytes_utf8b_to_string_append(SubSeq(bvec, bvec_start + 1, bvec_end),
                                        str, str_start, str_end, eof)
    ELSE [ret |-> c_sizepair(0, 0), str |-> str, oob |-> FALSE]

\* Smake_string(str_len, 0), for a length the host can represent
Smake_string(n) == [i \in 1..n |-> 0]

\* len is given (the strlen case is not modelled) and fits an iptr.
\* ok = FALSE is the "raise condition" branch.
schemesh_Sstring_utf8b(chars) ==
    LET len  == Len(chars)
        slen == c_bytes_utf8b_to_string_length(chars)
        r    == c_bytes_utf8b_to_string_append(chars, Smake_string(slen), 0, slen, Strue)
    IN  [ok |-> (r.ret.byte_n = len /\ r.ret.char_n = slen), str |-> r.str,
         slen |-> slen, ret |-> r.ret]

\* Smake_bytevector(n, 0)
Smake_bytevector(n) == [i \in 1..n |-> 0]

(***************************************************************************)
(* State.                                                                  *)
(*   pc    where the caller is                                             *)
(*   orig  the input the caller started from                               *)
(*   bvec  the bytevector the next call reads or writes                    *)
(*   str   the string the next call reads or writes                        *)
(*   args  the arguments of the last call, with the buffers before it      *)
(*   ret   what the last call returned                                     *)
(*   fed   how many bytes of orig have arrived (chunked decoding)          *)
(***************************************************************************)
VARIABLES pc, orig, bvec, str, args, ret, fed

vars == <<pc, orig, bvec, str, args, ret, fed>>

NoArgs == [op |-> "none"]

(***************************************************************************)
(* Spec: a byte sequence is decoded whole, then encoded back.              *)
(***************************************************************************)
Init ==
    /\ pc = "start"
    /\ orig \in SeqsUpTo(ByteSet, MaxBytes)
    /\ bvec = orig
    /\ str = <<>>
    /\ args = NoArgs
    /\ ret = Sfalse
    /\ fed = 0

InitResume ==
    /\ pc = "start"
    /\ orig \in SeqsUpTo(StreamBytes, MaxBytes)
    /\ bvec = orig
    /\ str = <<>>
    /\ args = NoArgs
    /\ ret = Sfalse
    /\ fed = 0

\* decodeAppend of the whole bytevector, end of input, one slot per byte
DecodeAll ==
    /\ pc = "start"
    /\ LET len == Len(bvec)
           r   == c_bytevector_utf8b_to_string_append(bvec, 0, len, Smake_string(len),
                                                      0, len, Strue)
       IN  /\ str' = SubSeq(r.str, 1, r.ret.char_n)
           /\ ret' = r.ret
    /\ pc' = "decoded"
    /\ args' = [op |-> "decode_all"]
    /\ UNCHANGED <<orig, bvec, fed>>

\* encodeAppend of the decoded string into 4 bytes per scalar
EncodeDecoded ==
    /\ pc = "decoded"
    /\ LET r == c_string_to_utf8b_append(str, 0, Len(str),
                                         Smake_bytevector(4 * Len(str)), 0)
       IN  /\ bvec' = r.bvec
           /\ ret' = r.ret
    /\ pc' = "encoded"
    /\ args' = [op |-> "encode_decoded"]
    /\ UNCHANGED <<orig, str, fed>>

Sstring_utf8b ==
    /\ pc = "start"
    /\ LET r == schemesh_Sstring_utf8b(bvec)
       IN  /\ str' = r.str
           /\ ret' = [ok |-> r.ok, slen |-> r.slen,
                      byte_n |-> r.ret.byte_n, char_n |-> r.ret.char_n]
    /\ pc' = "Sstring"
    /\ args' = [op |-> "Sstring_utf8b"]
    /\ UNCHANGED <<orig, bvec, fed>>

Next == DecodeAll \/ EncodeDecoded \/ Sstring_utf8b

Spec == Init /\ [][Next]_vars

(***************************************************************************)
(* SpecResume: decoding stopped by the output capacity, then resumed.      *)
(***************************************************************************)
DecodeBounded(k) ==
    /\ pc = "start"
    /\ LET len == Len(bvec)
           r   == c_bytevector_utf8b_to_string_append(bvec, 0, len, Smake_string(len),
                                                      0, k, Strue)
       IN  /\ str' = r.str
           /\ ret' = r.ret
    /\ pc' = "partial"
    /\ args' = [op |-> "decode_bounded", k |-> k]
    /\ UNCHANGED <<orig, bvec, fed>>

DecodeResume ==
    /\ pc = "partial"
    /\ LET r == c_bytevector_utf8b_to_string_append(bvec, ret.byte_n, Len(bvec), str,
                                                    ret.char_n, Len(str), Strue)
       IN  /\ str' = SubSeq(r.str, 1, ret.char_n + r.ret.char_n)
           /\ ret' = r.ret
    /\ pc' = "resumed"
    /\ args' = [op |-> "decode_resume", k |-> args.k, first |-> ret]
    /\ UNCHANGED <<orig, bvec, fed>>

DecodeBoundedAny == pc = "start" /\ \E k \in 0..Len(bvec) : DecodeBounded(k)

NextResume == DecodeBoundedAny \/ DecodeResume

SpecResume == InitResume /\ [][NextResume]_vars

(***************************************************************************)
(* SpecChunk: the bytes of orig arrive in chunks.  Each call sees the      *)
(* unconsumed suffix of the previous call followed by the next chunk; the  *)
(* flag is true on the last chunk only; the string has room for one scalar *)
(* per byte.                                                               *)
(***************************************************************************)
InitChunk ==
    /\ pc = "feeding"
    /\ orig \in SeqsUpTo(StreamBytes, MaxBytes)
    /\ bvec = <<>>
    /\ str = <<>>
    /\ args = NoArgs
    /\ ret = Sfalse
    /\ fed = 0

FeedChunk(n) ==
    /\ pc = "feeding"
    /\ fed + n <= Len(orig)
    /\ LET in  == bvec \o SubSeq(orig, fed + 1, fed + n)
           eof == IF fed + n = Len(orig) THEN Strue ELSE Sfalse
           r   == c_bytevector_utf8b_to_string_append(in, 0, Len(in),
                      str \o Smake_string(Len(in)), Len(str), Len(str) + Len(in), eof)
       IN  /\ str' = SubSeq(r.str, 1, Len(str) + r.ret.char_n)
           /\ bvec' = SubSeq(in, r.ret.byte_n + 1, Len(in))
           /\ ret' = r.ret
           /\ args' = [op |-> "decode_chunk", in |-> in, eof |-> eof, str |-> str]
           /\ pc' = IF eof = Strue THEN "done" ELSE "feeding"
    /\ fed' = fed + n
    /\ UNCHANGED orig

NextChunk == pc = "feeding" /\ \E n \in 1..Len(orig) - fed : FeedChunk(n)

SpecChunk == InitChunk /\ [][NextChunk]_vars

(***************************************************************************)
(* SpecEncode: a scalar sequence is encoded whole, then decoded back.      *)
(***************************************************************************)
InitEncode ==
    /\ pc = "start"
    /\ orig \in SeqsUpTo(ScalarSet, MaxChars)
    /\ str = orig
    /\ bvec = <<>>
    /\ args = NoArgs
    /\ ret = Sfalse
    /\ fed = 0

EncodeAll ==
    /\ pc = "start"
    /\ LET r == c_string_to_utf8b_append(str, 0, Len(str),
                                         Smake_bytevector(4 * Len(str)), 0)
       IN  /\ bvec' = IF r.ret.tag = "fixnum" THEN SubSeq(r.bvec, 1, r.ret.val) ELSE r.bvec
           /\ ret' = r.ret
    /\ pc' = "encoded"
    /\ args' = [op |-> "encode_all"]
    /\ UNCHANGED <<orig, str, fed>>

DecodeEncoded ==
    /\ pc = "encoded"
    /\ ret.tag = "fixnum"
    /\ LET len == Len(bvec)
           r   == c_bytevector_utf8b_to_string_append(bvec, 0, len, Smake_string(len),
                                                      0, len, Strue)
       IN  /\ str' = SubSeq(r.str, 1, r.ret.char_n)
           /\ ret' = r.ret
    /\ pc' = "decoded"
    /\ args' = [op |-> "decode_encoded"]
    /\ UNCHANGED <<orig, bvec, fed>>

NextEncode == EncodeAll \/ DecodeEncoded

SpecEncode == InitEncode /\ [][NextEncode]_vars

(***************************************************************************)
(* SpecCalls: one call of either entry point with arbitrary arguments,     *)
(* ranges that are inverted or out of the buffers included.                *)
(***************************************************************************)
\* one scalar of each row of the encoding rule, and the two unencodable kinds
CallScalars == {\h41, \h80, \h20AC, \h10FFFF, \hDCFF, \hD800, \h110000}
CallBytes   == {\h41, \hC2, \hE2, \h82}

InitCalls ==
    /\ pc = "start"
    /\ orig = <<>>
    /\ \/ /\ str \in SeqsUpTo(CallScalars, MaxArg)
          /\ bvec \in {Smake_bytevector(n) : n \in 0..MaxOut}
       \/ /\ bvec \in SeqsUpTo(CallBytes, MaxArg)
          /\ str \in {Smake_string(n) : n \in 0..MaxArg}
    /\ args = NoArgs
    /\ ret = Sfalse
    /\ fed = 0

\* the output bytevector is freshly made
StringToUtf8bAppend(start, end, ostart) ==
    /\ pc = "start"
    /\ bvec = Smake_bytevector(Len(bvec))
    /\ LET r == c_string_to_utf8b_append(str, start, end, bvec, ostart)
       IN  /\ bvec' = r.bvec
           /\ ret' = [ret |-> r.ret, opos |-> r.opos]
    /\ pc' = "returned"
    /\ args' = [op |-> "string_to_utf8b_append", start |-> start, end |-> end,
                ostart |-> ostart, bvec |-> bvec, str |-> str]
    /\ UNCHANGED <<orig, str, fed>>

\* The output string is freshly made.  A store outside the string object is
\* undefined: the call either returns, the stray store having landed in
\* memory that is not the string, or the process dies.
BytevectorUtf8bToStringAppend(bvec_start, bvec_end, str_start, str_end, eof) ==
    /\ pc = "start"
    /\ str = Smake_string(Len(str))
    /\ LET r == c_bytevector_utf8b_to_string_append(bvec, bvec_start, bvec_end,
                                                    str, str_start, str_end, eof)
       IN  /\ str' = r.str
           /\ ret' = r.ret
           /\ pc' \in (IF r.oob THEN {"returned", "crashed"} ELSE {"returned"})
    /\ args' = [op |-> "bytevector_utf8b_to_string_append",
                bvec_start |-> bvec_start, bvec_end |-> bvec_end,
                str_start |-> str_start, str_end |-> str_end, eof |-> eof,
                bvec |-> bvec, str |-> str]
    /\ UNCHANGED <<orig, bvec, fed>>

CallStringToUtf8bAppend ==
    /\ pc = "start"
    /\ \E start \in -1..Len(str) + 1, end \in -1..Len(str) + 1, ostart \in -1..Len(bvec) + 1 :
          StringToUtf8bAppend(start, end, ostart)

CallBytevectorUtf8bToStringAppend ==
    /\ pc = "start"
    /\ \E bvec_start \in -1..Len(bvec) + 1, bvec_end \in -1..Len(bvec) + 1,
          str_start \in -1..Len(str) + 1, str_end \in -1..Len(str) + 1,
          eof \in {Sfalse, Strue} :
          BytevectorUtf8bToStringAppend(bvec_start, bvec_end, str_start, str_end, eof)

NextCalls == CallStringToUtf8bAppend \/ CallBytevectorUtf8bToStringAppend

SpecCalls == InitCalls /\ [][NextCalls]_vars


(***************************************************************************)
(* Properties.                                                             *)
(***************************************************************************)
\* the scalars encodeAppend can encode
Encodable(c) ==
    \/ c >= 0 /\ c < \hD800
    \/ c >= \hDC80 /\ c < \hDD00
    \/ c >= \hE000 /\ c < \h110000

\* the scalars of genuine text: [0, 0xD800) and [0xE000, 0x110000)
Legal(c) == (c >= 0 /\ c < \hD800) \/ (c >= \hE000 /\ c < \h110000)

EscapeValue(c) == c >= \hDC80 /\ c < \hDD00

\* B decoded by one call, end of input, one slot per byte
WholeDecode(B) ==
    LET r == c_bytevector_utf8b_to_string_append(B, 0, Len(B), Smake_string(Len(B)),
                                                 0, Len(B), Strue)
    IN  SubSeq(r.str, 1, r.ret.char_n)

\* C1: byte round-trip.  Decoding any byte sequence with end of input and
\* enough slots, then encoding the scalars into enough bytes, succeeds
\* (returns the position after the last byte) and writes the original bytes.
C1_ByteRoundTrip ==
    pc = "encoded" =>
        /\ ret = Sfixnum(Len(orig))
        /\ SubSeq(bvec, 1, Len(orig)) = orig

\* a round trip through both an escape value and a multi-byte scalar
C1_Witness ==
    /\ pc = "encoded"
    /\ ret = Sfixnum(Len(orig))
    /\ \E i \in DOMAIN str, j \in DOMAIN str :
          EscapeValue(str[i]) /\ str[j] >= \h800 /\ ~EscapeValue(str[j])

\* C8: decoder length agreement.  In schemesh_Sstring_utf8b the dry-run
\* length equals the scalars produced by the decode into a string of that
\* length, which consumes all the bytes: the failure branch is not taken.
C8_DecoderLengthAgreement ==
    pc = "Sstring" =>
        /\ ret.char_n = ret.slen
        /\ ret.byte_n = Len(orig)
        /\ ret.ok
        /\ Len(str) = ret.slen

\* an input with a multi-byte unit and a byte that is escaped
C8_Witness ==
    /\ pc = "Sstring"
    /\ ret.ok
    /\ ret.slen >= 2
    /\ ret.slen < Len(orig)
    /\ \E i \in DOMAIN str : EscapeValue(str[i])

\* C9: resumption after a capacity stop.  After a decode with end of input
\* into k slots, the bytes consumed are the total length of the units whose
\* scalars were written; decoding the rest from there into further slots
\* gives, together, the scalars of one decode of the whole input.
C9_ResumeAfterCapacityStop ==
    /\ pc = "partial" =>
          /\ ret.char_n <= args.k
          /\ ret.byte_n = c_string_to_utf8b_length(str, 0, ret.char_n)
    /\ pc = "resumed" => str = WholeDecode(orig)

\* the first call stopped for capacity after a multi-byte unit, bytes left
C9_Witness ==
    /\ pc = "resumed"
    /\ args.first.char_n = args.k
    /\ args.first.char_n >= 1
    /\ args.first.byte_n > args.first.char_n
    /\ args.first.byte_n < Len(orig)
    /\ ret.char_n >= 1

\* C2: chunk-invariance.  Whatever the partition of the input into chunks,
\* the scalars produced chunk by chunk are those of one decode of the whole.
C2_ChunkInvariance == pc = "done" => str = WholeDecode(orig)

\* the bytes a lead byte announces: 2, 3 or 4, and 0 for any other byte
utf8_form_length(b) ==
    IF b >= \hC2 /\ b < \hE0 THEN 2
    ELSE IF b >= \hE0 /\ b < \hF0 THEN 3
    ELSE IF b >= \hF0 /\ b <= \hF4 THEN 4
    ELSE 0

\* a valid lead byte followed by valid continuation bytes, fewer than the
\* form needs
Truncated(T) ==
    /\ Len(T) >= 2
    /\ utf8_form_length(T[1]) > Len(T)
    /\ \A i \in 2..Len(T) : utf8_continuation(T[i])

\* position k of in is where a unit starts when decoding from position pos
RECURSIVE UnitStart(_, _, _)
UnitStart(in, pos, k) ==
    IF pos >= k THEN pos = k
    ELSE UnitStart(in, pos + c_utf8b_to_codepoint_length(SubSeq(in, pos + 1, Len(in))), k)

\* C3: incomplete trailing input is not consumed.  A call without end of
\* input whose input ends in a truncated multi-byte sequence stops where
\* that sequence starts: its bytes are not consumed, no scalar stands for them.
C3_IncompleteNotConsumed ==
    (args.op = "decode_chunk" /\ args.eof = Sfalse) =>
        \A k \in 0..Len(args.in) :
            (UnitStart(args.in, 0, k) /\ Truncated(SubSeq(args.in, k + 1, Len(args.in)))) =>
                /\ ret.byte_n = k
                /\ ret.char_n = c_bytes_utf8b_to_string_length(SubSeq(args.in, 1, k))
                /\ Len(str) = Len(args.str) + ret.char_n

\* C7: scalar round-trip.  A sequence of legal scalars is encoded with
\* success into enough bytes, and the bytes written decode to the sequence.
C7_ScalarRoundTrip ==
    (\A i \in DOMAIN orig : Legal(orig[i])) =>
        /\ pc = "encoded" => ret.tag = "fixnum"
        /\ pc = "decoded" => str = orig

\* a round trip of a 2-byte and a 4-byte scalar
C7_Witness ==
    /\ pc = "decoded"
    /\ str = orig
    /\ \A i \in DOMAIN orig : Legal(orig[i])
    /\ \E i \in DOMAIN orig, j \in DOMAIN orig :
          orig[i] >= \h80 /\ orig[i] < \h800 /\ orig[j] >= \h10000

\* C4: distinct failure outcomes.  encodeAppend returns a scalar value only
\* for a scalar that cannot be encoded; an encodable scalar that does not fit
\* gives the generic failure.
C4_FailureOutcomesDistinct ==
    args.op = "string_to_utf8b_append" =>
        (ret.ret.tag = "char" => ~Encodable(ret.ret.val))

\* the encodings of the n scalars of string from position ipos on
RECURSIVE EncodedUnits(_, _, _)
EncodedUnits(string, ipos, n) ==
    IF n = 0 THEN <<>>
    ELSE c_codepoint_to_utf8b(Sstring_ref(string, ipos), 4)
         \o EncodedUnits(string, ipos + 1, n - 1)

\* C5: bounded write.  encodeAppend changes only bytes from outputStart up
\* to the end of the bytevector, decodeAppend only scalars of
\* [outputStart, outputCapacity); a unit that does not fit leaves no byte,
\* and the units before it stand as written.
C5_BoundedWrite ==
    /\ args.op = "string_to_utf8b_append" =>
          LET ilen == Len(args.str)
              ipos == IF args.start < ilen THEN args.start ELSE ilen
          IN  /\ Len(bvec) = Len(args.bvec)
              /\ ret.opos >= args.ostart
              /\ \A p \in 0..Len(bvec) - 1 :
                    (p < args.ostart \/ p >= ret.opos) => bvec[p + 1] = args.bvec[p + 1]
              /\ ret.opos > args.ostart =>
                    /\ ret.opos <= Len(bvec)
                    /\ \E n \in 1..ilen - ipos :
                          SubSeq(bvec, args.ostart + 1, ret.opos)
                              = EncodedUnits(args.str, ipos, n)
    /\ args.op = "bytevector_utf8b_to_string_append" =>
          /\ Len(str) = Len(args.str)
          /\ ret.char_n >= 0
          /\ ret.char_n > 0 => ret.char_n <= args.str_end - args.str_start
          /\ \A p \in 0..Len(str) - 1 :
                (p < args.str_start \/ p >= args.str_end \/ p >= args.str_start + ret.char_n)
                    => str[p + 1] = args.str[p + 1]

\* a unit was written, the next one did not fit in the bytes that were left
C5_Witness ==
    /\ args.op = "string_to_utf8b_append"
    /\ ret.ret.tag # "fixnum"
    /\ ret.opos > args.ostart
    /\ ret.opos < Len(bvec)
    /\ args.ostart > 0

\* C6 as stated: every call with a range that is inverted or out of the
\* buffer it indexes is rejected and leaves the output as it was.
C6_RangeValidation ==
    /\ ( /\ args.op = "string_to_utf8b_append"
         /\ \/ args.start < 0
            \/ args.end < args.start
            \/ args.end > Len(args.str)
            \/ args.ostart < 0
            \/ args.ostart > Len(args.bvec) )
       => (ret.ret = Sfalse /\ bvec = args.bvec)
    /\ ( /\ args.op = "bytevector_utf8b_to_string_append"
         /\ \/ args.bvec_start < 0
            \/ args.bvec_end < args.bvec_start
            \/ args.bvec_end > Len(args.bvec)
            \/ args.str_start < 0
            \/ args.str_end < args.str_start
            \/ args.str_end > Len(args.str) )
       => (pc = "returned" /\ ret = c_sizepair(0, 0) /\ str = args.str)

\* C6 amended: a negative start or an inverted range, and for decodeAppend a
\* byte range ending beyond the bytevector, is rejected and leaves the output
\* as it was; encodeAppend with a scalar range ending beyond the string
\* converts the range clamped to the string's length.
C6_RangeValidationAmended ==
    /\ ( /\ args.op = "string_to_utf8b_append"
         /\ (args.start < 0 \/ args.end < args.start \/ args.ostart < 0) )
       => (ret.ret = Sfalse /\ bvec = args.bvec)
    /\ ( /\ args.op = "string_to_utf8b_append"
         /\ args.start >= 0 /\ args.end >= args.start /\ args.ostart >= 0
         /\ args.end > Len(args.str) )
       => LET ilen == Len(args.str)
              r    == c_string_to_utf8b_append(args.str,
                          IF args.start < ilen THEN args.start ELSE ilen, ilen,
                          args.bvec, args.ostart)
          IN  ret.ret = r.ret /\ bvec = r.bvec
    /\ ( /\ args.op = "bytevector_utf8b_to_string_append"
         /\ \/ args.bvec_start < 0
            \/ args.bvec_end < args.bvec_start
            \/ args.bvec_end > Len(args.bvec)
            \/ args.str_start < 0
            \/ args.str_end < args.str_start )
       => (pc = "returned" /\ ret = c_sizepair(0, 0) /\ str = args.str)

\* a decode whose byte range ends beyond the bytevector is rejected, though
\* the bytevector holds bytes and the string has room
C6_Witness ==
    /\ args.op = "bytevector_utf8b_to_string_append"
    /\ args.bvec_start = 0
    /\ args.bvec_end > Len(args.bvec)
    /\ Len(args.bvec) >= 1
    /\ args.str_start = 0
    /\ args.str_end = Len(args.str)
    /\ Len(args.str) >= 1
    /\ ret = c_sizepair(0, 0)
    /\ str = args.str

\* C10: encoder length agreement.  When encodeAppend succeeds it has written
\* as many bytes as c_string_to_utf8b_length counts for the same range; a
\* bytevector with that much room is enough when the scalars are encodable.
C10_EncoderLengthAgreement ==
    args.op = "string_to_utf8b_append" =>
        LET ilen == Len(args.str)
            n    == c_string_to_utf8b_length(args.str, args.start, args.end)
        IN  /\ ret.ret.tag = "fixnum" => ret.ret.val - args.ostart = n
            /\ ( /\ args.start >= 0 /\ args.end >= args.start /\ args.ostart >= 0
                 /\ \A i \in 1..ilen :
                       (i > args.start /\ i <= args.end) => Encodable(args.str[i])
                 /\ Len(args.bvec) - args.ostart >= n )
               => ret.ret.tag = "fixnum"

\* a success that filled the bytevector to its end with multi-byte units
C10_Witness ==
    /\ args.op = "string_to_utf8b_append"
    /\ ret.ret.tag = "fixnum"
    /\ ret.ret.val = Len(bvec)
    /\ ret.ret.val - args.ostart >= 3
    /\ args.ostart >= 1

=============================================================================
